---------------------------- MODULE Spec2Model ----------------------------
(***************************************************************************)
(* A model of backend/server.py: the transaction ledger and its summary,   *)
(* the quote lookup and stock analysis, and the chat endpoint with its     *)
(* history.  Each HTTP handler is one action, except chat_with_ai, which   *)
(* is split at its only suspension point (the awaited insert_one).         *)
(*                                                                         *)
(* Money.  Amounts are floats in the source.  The model takes them from    *)
(* the multiples of 1/8 of a currency unit: these are exact in binary      *)
(* floating point, their sums are exact, and round(x, 2) on them is the    *)
(* exact round-half-to-even that Python performs.  An amount n stands for  *)
(* n/8; a rounded output c stands for c/100.                               *)
(*                                                                         *)
(* Identifiers.  str(uuid.uuid4()) is modelled as a fresh positive         *)
(* integer; the empty string is 0 and the other strings a client may       *)
(* choose are negative integers.                                           *)
(***************************************************************************)
EXTENDS Integers, Sequences, FiniteSets, TLC

\* ------------------------------------------------------------- bounds
\* Transactions created in one behaviour of the ledger specification.
LedgerMaxTxns == 3
\* Transactions created in one behaviour of the summary specification.
SummaryMaxTxns == 2
\* The largest reading of datetime.utcnow().
MaxClock == 1
\* Amounts range over -1/8 and 1/8 .. MaxAmount/8.
MaxAmount == 1
\* to_list(1000) of get_transactions, scaled so that the cap is reached.
ListLimit == 2
\* to_list(1000) of get_financial_summary, scaled likewise.
ScanLimit == 1
\* Closing prices range over 1/8 .. MaxPrice/8.
MaxPrice == 3
\* Chat calls begun in one behaviour of the chat specification.
MaxChats == 2
\* to_list(100) of get_chat_history, scaled so that the cap is reached.
HistoryLimit == 1
\* Identifiers drawn and chat calls begun in one behaviour of the store
\* specification.
StoreMaxUuid == 2
StoreMaxChats == 1

Amounts == {-1} \cup (1..MaxAmount)
Kinds == {"income", "expense", "other"}
Categories == {"food", "rent"}

VARIABLES
    transactions,   \* db.transactions, in the store's natural order
    uuid,           \* how many identifiers uuid4 has generated
    clock,          \* datetime.utcnow()
    resp,           \* the last response: [op, status, id, raised, error]
    listed,         \* body of the last get_transactions response
    summary,        \* body of the last get_financial_summary response
    scanned,        \* the documents the last summary scan returned
    deleted,        \* identifiers whose delete returned success
    GEMINI_API_KEY, \* os.environ.get('GEMINI_API_KEY'): <<>> when unset
    provider,       \* what the market-data provider answered last
    calls,          \* the external calls of the last stock or chat request
    stock_data,     \* the quote of the last stock response: <<>> or <<quote>>
    ai_analysis,    \* ai_analysis of the last analyze response
    chat_history,   \* db.chat_history, in the store's natural order
    pending,        \* the chat calls suspended at their insert_one
    reply,          \* body of the last chat response
    history,        \* body of the last get_chat_history response
    returned,       \* how many chat calls have returned
    granted         \* per chat call that returned a session identifier:
                    \* the one supplied, the one returned, the message stored

ledgerVars == <<transactions, listed, summary, scanned, deleted>>
stockVars == <<provider, calls, stock_data, ai_analysis>>
chatVars == <<chat_history, pending, reply, history, returned, granted>>
vars == <<uuid, clock, resp, GEMINI_API_KEY, ledgerVars, stockVars, chatVars>>

\* ------------------------------------------------------------ helpers
Min(a, b) == IF a < b THEN a ELSE b

\* s without its i-th element.
RemoveAt(s, i) == [j \in 1..(Len(s) - 1) |-> IF j < i THEN s[j] ELSE s[j + 1]]

\* to_list(n): the first n documents of a cursor.
to_list(s, n) == SubSeq(s, 1, Min(n, Len(s)))

\* The bijections of 1..n onto itself.
Perms(n) == {p \in [1..n -> 1..n] : \A i, j \in 1..n : i # j => p[i] # p[j]}

\* The strictly increasing index sequences of length k into 1..n.
Picks(n, k) == {p \in [1..k -> 1..n] : \A i, j \in 1..k : i < j => p[i] < p[j]}

\* Python's round of num/den (den > 0) to the nearest integer, ties to even.
RoundHalfEven(num, den) ==
    LET q == num \div den
        r == num % den
    IN  IF 2 * r < den THEN q
        ELSE IF 2 * r > den THEN q + 1
        ELSE IF q % 2 = 0 THEN q ELSE q + 1

\* round(x, 2) of x = n/8, in hundredths.
Round2(n) == RoundHalfEven(n * 100, 8)

NoSummary ==
    [total_income |-> 0, total_expenses |-> 0, net_savings |-> 0,
     expense_categories |-> [c \in {} |-> 0], savings_rate |-> 0]

\* A response, with what raised while it was made ("none", "store",
\* "provider" or "prompt") and the text of that exception.
Answer(op, status, id, raised, error) ==
    [op |-> op, status |-> status, id |-> id, raised |-> raised, error |-> error]

Response(op, status, id) == Answer(op, status, id, "none", "")

\* str(e) of an exception of the store.
StoreError == "store unreachable"

Swallowed(op, id) == Answer(op, 200, id, "store", StoreError)

\* An exception that leaves a handler: the framework answers HTTP 500.
Unhandled(op, id) == Answer(op, 500, id, "store", StoreError)

\* Transaction(**transaction_dict): id and date from the default factories.
\* user_id is the constant "default_user" and description is free text that
\* no handler reads; both are left out.
Transaction(kind, amount, category) ==
    [id |-> uuid + 1, type |-> kind, amount |-> amount,
     category |-> category, date |-> clock]

\* The environment: the credential unset, set to the empty string, or set.
Keys == {<<>>, <<"">>, <<"key">>}

\* if not gemini_api_key: None and the empty string are both falsy.
Configured(key) == key # <<>> /\ key[1] # ""

NoProvider == [raises |-> FALSE, hist |-> <<>>, previousClose |-> <<>>, marketCap |-> <<>>]

NoReply == [response |-> <<>>, session_id |-> <<>>]

\* ------------------------------------------------------------- ledger
Init ==
    /\ transactions = <<>>
    /\ uuid = 0
    /\ clock = 0
    /\ resp = Response("none", 0, 0)
    /\ listed = <<>>
    /\ summary = NoSummary
    /\ scanned = <<>>
    /\ deleted = {}
    /\ GEMINI_API_KEY \in Keys
    /\ provider = NoProvider
    /\ calls = <<>>
    /\ stock_data = <<>>
    /\ ai_analysis = <<>>
    /\ chat_history = <<>>
    /\ pending = {}
    /\ reply = NoReply
    /\ history = <<>>
    /\ returned = 0
    /\ granted = {}

\* Time passes between requests.
Tick ==
    /\ clock < MaxClock
    /\ clock' = clock + 1
    /\ UNCHANGED <<uuid, resp, GEMINI_API_KEY, ledgerVars, stockVars, chatVars>>

\* The store raises inside an awaited call of a handler that has no
\* try/except: nothing is written and the exception leaves the handler.
StoreRaises(op, id) ==
    /\ resp' = Unhandled(op, id)
    /\ listed' = <<>>
    /\ summary' = NoSummary
    /\ scanned' = <<>>
    /\ UNCHANGED <<transactions, deleted>>

create_transaction(kind, amount, category) ==
    LET transaction_obj == Transaction(kind, amount, category) IN
    /\ uuid' = uuid + 1
    /\ \/ /\ transactions' = Append(transactions, transaction_obj)
          /\ resp' = Response("create", 200, transaction_obj.id)
          /\ listed' = <<>>
          /\ summary' = NoSummary
          /\ scanned' = <<>>
          /\ UNCHANGED deleted
       \/ StoreRaises("create", transaction_obj.id)
    /\ UNCHANGED <<clock, GEMINI_API_KEY, stockVars, chatVars>>

NaturalOrder(s) == {s}

\* find().sort("date", -1): every order of the documents that is descending
\* by date; the order among equal dates is the store's choice.
SortedByDateDesc(s) ==
    {[i \in 1..Len(s) |-> s[p[i]]] : p \in
        {q \in Perms(Len(s)) :
            \A i, j \in 1..Len(s) : i < j => s[q[i]].date >= s[q[j]].date}}

get_transactions ==
    /\ \/ \E sorted \in SortedByDateDesc(transactions) :
            /\ listed' = to_list(sorted, ListLimit)
            /\ resp' = Response("list", 200, 0)
            /\ summary' = NoSummary
            /\ scanned' = <<>>
            /\ UNCHANGED <<transactions, deleted>>
       \/ StoreRaises("list", 0)
    /\ UNCHANGED <<uuid, clock, GEMINI_API_KEY, stockVars, chatVars>>

\* delete_one({"id": transaction_id}): removes the first matching document.
Matching(s, id) == {i \in DOMAIN s : s[i].id = id}

delete_first(s, id) ==
    IF Matching(s, id) = {} THEN s ELSE RemoveAt(s, 1)

delete_one(s, id) ==
    IF Matching(s, id) = {} THEN s
    ELSE RemoveAt(s, CHOOSE i \in Matching(s, id) : \A j \in Matching(s, id) : i <= j)

deleted_count(s, id) == IF Matching(s, id) = {} THEN 0 ELSE 1

delete_transaction(transaction_id) ==
    /\ \/ /\ transactions' = delete_one(transactions, transaction_id)
          /\ IF deleted_count(transactions, transaction_id) = 0
             THEN /\ resp' = Response("delete", 404, transaction_id)
                  /\ UNCHANGED deleted
             ELSE /\ resp' = Response("delete", 200, transaction_id)
                  /\ deleted' = deleted \cup {transaction_id}
          /\ listed' = <<>>
          /\ summary' = NoSummary
          /\ scanned' = <<>>
       \/ StoreRaises("delete", transaction_id)
    /\ UNCHANGED <<uuid, clock, GEMINI_API_KEY, stockVars, chatVars>>

\* ------------------------------------------------------------ summary
\* find().to_list(1000) without a sort: the store returns the documents in
\* an order of its choosing, so the scan is any ScanLimit of them (all of
\* them when there are no more than that).
Scans(s) ==
    {[i \in 1..Min(ScanLimit, Len(s)) |-> s[p[i]]] : p \in Picks(Len(s), Min(ScanLimit, Len(s)))}

\* sum(t['amount'] for t in transactions if t['type'] == kind)
RECURSIVE SumOfKind(_, _)
SumOfKind(s, kind) ==
    IF s = <<>> THEN 0
    ELSE SumOfKind(Tail(s), kind) + (IF Head(s).type = kind THEN Head(s).amount ELSE 0)

RECURSIVE BreakdownOfAllKinds(_)
BreakdownOfAllKinds(s) ==
    IF s = <<>> THEN [c \in {} |-> 0]
    ELSE LET t == s[Len(s)]
             before == BreakdownOfAllKinds(SubSeq(s, 1, Len(s) - 1))
         IN  [c \in DOMAIN before \cup {t.category} |->
                 IF c = t.category
                 THEN (IF c \in DOMAIN before THEN before[c] ELSE 0) + t.amount
                 ELSE before[c]]

\* The loop that fills expense_categories, one document at a time.
RECURSIVE CategoryBreakdown(_)
CategoryBreakdown(s) ==
    IF s = <<>> THEN [c \in {} |-> 0]
    ELSE LET t == s[Len(s)]
             before == CategoryBreakdown(SubSeq(s, 1, Len(s) - 1))
         IN  IF t.type = "expense"
             THEN [c \in DOMAIN before \cup {t.category} |->
                      IF c = t.category
                      THEN (IF c \in DOMAIN before THEN before[c] ELSE 0) + t.amount
                      ELSE before[c]]
             ELSE before

\* round((net_savings / total_income * 100) if total_income > 0 else 0, 2),
\* in hundredths of a percent.
SavingsRate(net_savings, total_income) ==
    IF total_income > 0 THEN RoundHalfEven(net_savings * 10000, total_income) ELSE 0

Summarize(s) ==
    LET total_income == SumOfKind(s, "income")
        total_expenses == SumOfKind(s, "expense")
        net_savings == total_income - total_expenses
    IN  [total_income |-> Round2(total_income),
         total_expenses |-> Round2(total_expenses),
         net_savings |-> Round2(net_savings),
         expense_categories |-> CategoryBreakdown(s),
         savings_rate |-> SavingsRate(net_savings, total_income)]

get_financial_summary ==
    /\ \/ \E scan \in Scans(transactions) :
            /\ scanned' = scan
            /\ summary' = Summarize(scan)
            /\ resp' = Response("summary", 200, 0)
            /\ listed' = <<>>
            /\ UNCHANGED <<transactions, deleted>>
       \/ StoreRaises("summary", 0)
    /\ UNCHANGED <<uuid, clock, GEMINI_API_KEY, stockVars, chatVars>>

\* -------------------------------------------------------------- stock
Symbols == {"aapl", "MSFT"}

\* symbol.upper()
Upper(symbol) == IF symbol = "aapl" THEN "AAPL" ELSE symbol

Prices == 1..MaxPrice

\* What yf.Ticker(symbol) yields: the call raises, or it gives a one-day
\* history (empty, or with a last close) and an info dictionary in which
\* previousClose and marketCap may be absent.  A previous close, when
\* reported, is a positive price.  The other info fields (volume, longName,
\* sector, trailingPE, dividendYield) are copied into the quote unread.
ProviderAnswers ==
    [raises : BOOLEAN,
     hist : {<<>>} \cup {<<c>> : c \in Prices},
     previousClose : {<<>>} \cup {<<c>> : c \in Prices},
     marketCap : {<<>>, <<1000>>}]

prev_close_ignoring_info(answer) == answer.hist[1]

\* info.get('previousClose', current_price)
prev_close(answer) ==
    IF answer.previousClose = <<>> THEN answer.hist[1] ELSE answer.previousClose[1]

\* get_stock_data: <<>> for None, else the quote.  Prices are in eighths,
\* the rounded fields in hundredths.
get_stock_data(symbol, answer) ==
    IF answer.raises THEN <<>>
    ELSE IF answer.hist = <<>> THEN <<>>
    ELSE LET current_price == answer.hist[1]
             change == current_price - prev_close(answer)
         IN  <<[symbol |-> Upper(symbol),
                current_price |-> Round2(current_price),
                change |-> Round2(change),
                change_percent |-> RoundHalfEven(change * 10000, prev_close(answer)),
                market_cap |-> answer.marketCap]>>

AnalysisWarning == <<"Gemini API key not configured. Please add your API key to use AI analysis.">>

\* What model.generate_content does: it returns a text or it raises.
GenaiOutcomes == {[raises |-> FALSE, text |-> "generated text"],
                  [raises |-> TRUE, text |-> "quota exceeded"]}

\* The except clause of get_stock_analysis.
analysis_except(e) == <<"Unable to generate AI analysis at this time. Error: ", e>>

analysis_calls_always(key, quote) == TRUE

\* Whether get_stock_analysis reaches model.generate_content: the key is
\* configured and the prompt could be formatted ({market_cap:,} raises a
\* TypeError when market_cap is None).
analysis_calls_provider(key, quote) == Configured(key) /\ quote.market_cap # <<>>

\* get_stock_analysis: the analysis text.
get_stock_analysis(key, quote, outcome) ==
    IF ~Configured(key) THEN AnalysisWarning
    ELSE IF quote.market_cap = <<>> THEN analysis_except("TypeError")
    ELSE IF outcome.raises THEN analysis_except(outcome.text)
    ELSE <<outcome.text>>

get_stock_info(symbol, answer) ==
    LET data == get_stock_data(symbol, answer) IN
    /\ provider' = answer
    /\ calls' = <<"yfinance">>
    /\ stock_data' = data
    /\ ai_analysis' = <<>>
    /\ resp' = Response("stock", IF data = <<>> THEN 404 ELSE 200, 0)
    /\ UNCHANGED <<uuid, clock, GEMINI_API_KEY, ledgerVars, chatVars>>

analyze_stock(symbol, answer, outcome) ==
    LET data == get_stock_data(symbol, answer) IN
    /\ provider' = answer
    /\ IF data = <<>>
       THEN /\ calls' = <<"yfinance">>
            /\ stock_data' = <<>>
            /\ ai_analysis' = <<>>
            /\ resp' = Response("analyze", 404, 0)
       ELSE /\ calls' = IF analysis_calls_provider(GEMINI_API_KEY, data[1])
                        THEN <<"yfinance", "genai">> ELSE <<"yfinance">>
            /\ stock_data' = data
            /\ ai_analysis' = get_stock_analysis(GEMINI_API_KEY, data[1], outcome)
            /\ resp' = Response("analyze", 200, 0)
    /\ UNCHANGED <<uuid, clock, GEMINI_API_KEY, ledgerVars, chatVars>>

\* --------------------------------------------------------------- chat
\* A session identifier a client sends: the empty string (0), a string of
\* its own (-1), or one that a chat response has returned.
ClientSessions == {0, -1} \cup {g.session_id : g \in granted}

\* ChatRequest: session_id is <<>> for None.
ChatRequests ==
    [message : {"hi"}, session_id : {<<>>} \cup {<<c>> : c \in ClientSessions}]

ChatWarning == <<"Gemini API key not configured. Please add your API key to use AI chat.">>

chat_reraise(e) == [status |-> 500, body |-> NoReply]

\* The except clause of chat_with_ai: a normal response whose text carries
\* str(e), and no session_id.
chat_except(e) ==
    [status |-> 200,
     body |-> [response |-> <<"Sorry, I encountered an error: ", e>>,
               session_id |-> <<>>]]

always_new_session(request) == uuid + 1

\* request.session_id or str(uuid.uuid4()): None and "" are falsy.
session_for(request) ==
    IF request.session_id # <<>> /\ request.session_id[1] # 0
    THEN request.session_id[1]
    ELSE uuid + 1

\* How many identifiers the call draws: one for a new session, one for the
\* ChatMessage.
uuids_drawn(request) == IF session_for(request) = uuid + 1 THEN 2 ELSE 1

\* ChatMessage(session_id=..., message=..., response=...)
ChatMessage(request, ai_response) ==
    [id |-> uuid + uuids_drawn(request),
     session_id |-> session_for(request),
     message |-> request.message,
     response |-> ai_response,
     timestamp |-> clock]

\* chat_with_ai up to its await: the credential check, the provider call,
\* and the record handed to insert_one.
chat_with_ai(request, outcome) ==
    /\ IF ~Configured(GEMINI_API_KEY)
       THEN /\ reply' = [response |-> ChatWarning, session_id |-> <<>>]
            /\ resp' = Response("chat", 200, 0)
            /\ returned' = returned + 1
            /\ history' = <<>>
            /\ UNCHANGED <<uuid, pending>>
       ELSE IF outcome.raises
       THEN /\ reply' = chat_except(outcome.text).body
            /\ resp' = Answer("chat", chat_except(outcome.text).status, 0,
                              "provider", outcome.text)
            /\ returned' = returned + 1
            /\ history' = <<>>
            /\ UNCHANGED <<uuid, pending>>
       ELSE /\ pending' = pending \cup
                  {[request |-> request,
                    chat_record |-> ChatMessage(request, <<outcome.text>>),
                    state |-> "awaiting"]}
            /\ uuid' = uuid + uuids_drawn(request)
            /\ UNCHANGED <<reply, resp, returned, history>>
    /\ UNCHANGED <<clock, GEMINI_API_KEY, ledgerVars, stockVars,
                   chat_history, granted>>

insert_twice(call) ==
    /\ call.state = "awaiting"
    /\ chat_history' = chat_history \o <<call.chat_record, call.chat_record>>
    /\ pending' = (pending \ {call}) \cup {[call EXCEPT !.state = "written"]}
    /\ UNCHANGED <<uuid, clock, resp, GEMINI_API_KEY, ledgerVars, stockVars,
                   reply, history, returned, granted>>

\* The store serves the insert_one of a suspended chat call: it writes the
\* record, or it raises and writes nothing.
insert_one(call) ==
    /\ call.state = "awaiting"
    /\ \/ /\ chat_history' = Append(chat_history, call.chat_record)
          /\ pending' = (pending \ {call}) \cup {[call EXCEPT !.state = "written"]}
       \/ /\ pending' = (pending \ {call}) \cup {[call EXCEPT !.state = "raised"]}
          /\ UNCHANGED chat_history
    /\ UNCHANGED <<uuid, clock, resp, GEMINI_API_KEY, ledgerVars, stockVars,
                   reply, history, returned, granted>>

\* chat_with_ai after its await: the return, or the except clause when
\* insert_one raised.
chat_resume(call) ==
    /\ call.state # "awaiting"
    /\ pending' = pending \ {call}
    /\ returned' = returned + 1
    /\ IF call.state = "written"
       THEN /\ reply' = [response |-> call.chat_record.response,
                         session_id |-> <<call.chat_record.session_id>>]
            /\ resp' = Response("chat", 200, call.chat_record.id)
            /\ granted' = granted \cup
                  {[supplied |-> call.request.session_id,
                    session_id |-> call.chat_record.session_id,
                    id |-> call.chat_record.id]}
       ELSE /\ reply' = chat_except(StoreError).body
            /\ resp' = Answer("chat", chat_except(StoreError).status,
                              call.chat_record.id, "store", StoreError)
            /\ UNCHANGED granted
    /\ history' = <<>>
    /\ UNCHANGED <<uuid, clock, GEMINI_API_KEY, ledgerVars, stockVars, chat_history>>

InsertionOrder(s) == {s}

\* sort("timestamp", 1): every order of the documents that is ascending by
\* timestamp; the order among equal timestamps is the store's choice.
SortedByTimestampAsc(s) ==
    {[i \in 1..Len(s) |-> s[p[i]]] : p \in
        {q \in Perms(Len(s)) :
            \A i, j \in 1..Len(s) : i < j => s[q[i]].timestamp <= s[q[j]].timestamp}}

\* find({"session_id": session_id})
OfSession(s, session_id) == SelectSeq(s, LAMBDA m : m.session_id = session_id)

get_chat_history(session_id) ==
    /\ \/ \E sorted \in SortedByTimestampAsc(OfSession(chat_history, session_id)) :
            /\ history' = to_list(sorted, HistoryLimit)
            /\ resp' = Response("history", 200, session_id)
       \/ /\ history' = <<>>
          /\ resp' = Unhandled("history", session_id)
    /\ reply' = NoReply
    /\ UNCHANGED <<uuid, clock, GEMINI_API_KEY, ledgerVars, stockVars,
                   chat_history, pending, returned, granted>>

\* ----------------------------------------------------- specifications
\* The process started without the credential, and with it.
InitUnconfigured == Init /\ GEMINI_API_KEY = <<>>

InitConfigured == Init /\ GEMINI_API_KEY = <<"key">>

\* The ledger: creation times and identifiers vary, the amounts do not.
NextLedger ==
    \/ Tick
    \/ /\ uuid < LedgerMaxTxns
       /\ \E kind \in {"income", "expense"} : create_transaction(kind, 1, "food")
    \/ get_transactions
    \/ \E transaction_id \in 0..LedgerMaxTxns : delete_transaction(transaction_id)

SpecLedger == InitUnconfigured /\ [][NextLedger]_vars

\* The summary: kinds, amounts and categories vary, the clock does not.
NextSummary ==
    \/ /\ uuid < SummaryMaxTxns
       /\ \E kind \in Kinds, amount \in Amounts, category \in Categories :
            create_transaction(kind, amount, category)
    \/ \E transaction_id \in 0..SummaryMaxTxns : delete_transaction(transaction_id)
    \/ get_financial_summary

SpecSummary == InitUnconfigured /\ [][NextSummary]_vars

\* The stock endpoints, under each setting of the credential.
NextStock ==
    \/ \E symbol \in Symbols, answer \in ProviderAnswers : get_stock_info(symbol, answer)
    \/ \E symbol \in Symbols, answer \in ProviderAnswers, outcome \in GenaiOutcomes :
          analyze_stock(symbol, answer, outcome)

SpecStock == Init /\ [][NextStock]_vars

\* The chat endpoints, under each setting of the credential.
NextChat ==
    \/ Tick
    \/ /\ returned + Cardinality(pending) < MaxChats
       /\ \E request \in ChatRequests, outcome \in GenaiOutcomes :
             chat_with_ai(request, outcome)
    \/ \E call \in pending : insert_one(call)
    \/ \E call \in pending : chat_resume(call)
    \/ \E session_id \in ClientSessions : get_chat_history(session_id)

SpecChat == Init /\ [][NextChat]_vars

\* Every operation that touches the store, with one kind of transaction.
NextStore ==
    \/ /\ uuid < StoreMaxUuid
       /\ create_transaction("expense", 1, "food")
    \/ get_transactions
    \/ \E transaction_id \in 0..StoreMaxUuid : delete_transaction(transaction_id)
    \/ get_financial_summary
    \/ /\ uuid < StoreMaxUuid
       /\ returned + Cardinality(pending) < StoreMaxChats
       /\ \E outcome \in GenaiOutcomes :
             chat_with_ai([message |-> "hi", session_id |-> <<-1>>], outcome)
    \/ \E call \in pending : insert_one(call)
    \/ \E call \in pending : chat_resume(call)
    \/ \E session_id \in ClientSessions : get_chat_history(session_id)

SpecStore == InitConfigured /\ [][NextStore]_vars

\* ------------------------------------------------------------- claims
Range(s) == {s[i] : i \in DOMAIN s}

Abs(x) == IF x < 0 THEN -x ELSE x

\* r is num/den rounded to the nearest integer, an exact tie going to even.
IsRounded(num, den, r) ==
    /\ 2 * Abs(num - den * r) <= den
    /\ 2 * Abs(num - den * r) = den => r % 2 = 0

\* The sum of the amounts of the documents of s at the indices idx.
RECURSIVE TotalAt(_, _)
TotalAt(s, idx) ==
    IF idx = {} THEN 0
    ELSE LET i == CHOOSE j \in idx : TRUE
         IN  s[i].amount + TotalAt(s, idx \ {i})

\* The sum of the amounts of the documents of s that satisfy Keep.
Total(s, Keep(_)) == TotalAt(s, {i \in DOMAIN s : Keep(s[i])})

\* The sum of the values of a mapping.
RECURSIVE SumOfValues(_)
SumOfValues(f) ==
    IF DOMAIN f = {} THEN 0
    ELSE LET c == CHOOSE d \in DOMAIN f : TRUE
         IN  f[c] + SumOfValues([d \in DOMAIN f \ {c} |-> f[d]])

IsIncome(t) == t.type = "income"
IsExpense(t) == t.type = "expense"

\* C1: a delete whose identifier matches no stored transaction answers 404
\* and leaves the ledger as it was; a delete whose identifier matches one
\* answers success, removes that record and no other, and no later listing
\* contains an identifier whose delete succeeded.
C1_DeleteContract ==
    /\ [][(resp' # resp /\ resp'.op = "delete" /\ resp'.raised = "none") =>
            LET id == resp'.id
                hits == {i \in DOMAIN transactions : transactions[i].id = id}
            IN  IF hits = {}
                THEN /\ resp'.status = 404
                     /\ transactions' = transactions
                ELSE /\ resp'.status = 200
                     /\ \E i \in hits : transactions' = RemoveAt(transactions, i)
                     /\ \A t \in Range(transactions') : t.id # id]_vars
    /\ [](resp.op = "list" => \A i \in DOMAIN listed : listed[i].id \notin deleted)

\* A listing made after a successful delete, with records left to list.
C1_Witness ==
    /\ resp.op = "list"
    /\ resp.status = 200
    /\ deleted # {}
    /\ Len(listed) >= 1

\* C2: a listing is ordered by date descending, holds at most ListLimit
\* records, the newest of the stored ones, and no two of them share an
\* identifier.
C2_ListNewestFirst ==
    (resp.op = "list" /\ resp.status = 200) =>
        /\ Len(listed) = Min(ListLimit, Len(transactions))
        /\ \A i, j \in DOMAIN listed : i < j => listed[i].date >= listed[j].date
        /\ \A i, j \in DOMAIN listed : i # j => listed[i].id # listed[j].id
        /\ Range(listed) \subseteq Range(transactions)
        /\ \A t \in Range(transactions) \ Range(listed) :
              \A i \in DOMAIN listed : t.date <= listed[i].date

\* A truncated listing of records created at different times.
C2_Witness ==
    /\ resp.op = "list"
    /\ resp.status = 200
    /\ Len(transactions) > ListLimit
    /\ Len(listed) = ListLimit
    /\ listed[1].date > listed[Len(listed)].date

QuoteResolved == ~provider.raises /\ provider.hist # <<>>

\* C8: analyze calls the market-data provider first, and the
\* generative-language provider only after a resolved quote and with a
\* configured credential; an unresolved quote ends in 404 and an unconfigured
\* credential in success with the quote and the fixed warning, both without
\* a call of the generative-language provider.
C8_QuoteBeforeProvider ==
    resp.op = "analyze" =>
        /\ calls[1] = "yfinance"
        /\ \A i \in DOMAIN calls : calls[i] = "genai" =>
              i > 1 /\ QuoteResolved /\ Configured(GEMINI_API_KEY)
        /\ ~QuoteResolved =>
              resp.status = 404 /\ calls = <<"yfinance">> /\ ai_analysis = <<>>
        /\ (QuoteResolved /\ ~Configured(GEMINI_API_KEY)) =>
              /\ resp.status = 200
              /\ calls = <<"yfinance">>
              /\ stock_data # <<>>
              /\ ai_analysis = AnalysisWarning

\* An analysis for which the generative-language provider was called.
C8_Witness ==
    /\ resp.op = "analyze"
    /\ resp.status = 200
    /\ calls = <<"yfinance", "genai">>

Supplied(g) == g.supplied # <<>> /\ g.supplied[1] # 0

\* C5 as stated: every chat response carries a session identifier, the
\* supplied one whenever the caller supplied one, and a newly generated one
\* otherwise.
C5_AlwaysSession ==
    /\ resp.op = "chat" => reply.session_id # <<>>
    /\ \A g \in granted : g.supplied # <<>> => g.session_id = g.supplied[1]

\* C5 amended: a chat response carries a session identifier exactly when
\* the credential is configured and neither the provider nor the store
\* raised.  It is then the identifier stored on the persisted message; it is
\* the supplied one when the caller supplied a non-empty one; and it is a
\* newly generated one when the caller supplied none or the empty string, so
\* that two such calls never return the same identifier.
C5_SessionWhenStored ==
    /\ resp.op = "chat" =>
          /\ reply.session_id # <<>> <=>
                (Configured(GEMINI_API_KEY) /\ resp.raised = "none")
          /\ reply.session_id # <<>> =>
                \E g \in granted : g.id = resp.id /\ g.session_id = reply.session_id[1]
    /\ \A g \in granted :
          /\ \E i \in DOMAIN chat_history :
                /\ chat_history[i].id = g.id
                /\ chat_history[i].session_id = g.session_id
          /\ IF Supplied(g)
             THEN g.session_id = g.supplied[1]
             ELSE /\ g.session_id \in 1..uuid
                  /\ \A i \in DOMAIN chat_history : chat_history[i].id # g.session_id
                  /\ \A h \in granted \ {g} :
                        h.session_id = g.session_id => h.supplied = <<g.session_id>>

\* Two calls without a session identifier have returned, with different
\* identifiers.
C5_Witness ==
    \E g, h \in granted :
        /\ g # h
        /\ g.supplied = <<>>
        /\ h.supplied = <<>>
        /\ g.session_id # h.session_id

\* C6 as stated: the stored messages are as many as the chat calls that
\* have returned.
C6_StoredEqualsReturned == Len(chat_history) = returned

\* C6 amended: a chat call stores one message when the credential is
\* configured and neither the provider nor the store raised, and none
\* otherwise: the stored messages are as many as the chat calls that returned
\* a session identifier plus those whose insert is done and that have not
\* returned yet; no two stored messages are the same; and no step modifies or
\* removes a stored message.
C6_OnePerStoredExchange ==
    /\ [](/\ Len(chat_history) =
               Cardinality(granted) + Cardinality({c \in pending : c.state = "written"})
          /\ \A i, j \in DOMAIN chat_history :
               i # j => chat_history[i].id # chat_history[j].id
          /\ Cardinality(granted) <= returned)
    /\ [][/\ Len(chat_history') >= Len(chat_history)
          /\ SubSeq(chat_history', 1, Len(chat_history)) = chat_history]_vars

\* A call has stored its message and returned, another returned without
\* storing one.
C6_Witness ==
    /\ granted # {}
    /\ returned > Cardinality(granted)
    /\ Len(chat_history) >= 1

\* C7: when the provider call of a chat raises, the chat answers a normal
\* response (200) whose text contains the text of the exception.
C7_ProviderErrorIsText ==
    (resp.op = "chat" /\ resp.raised = "provider") =>
        /\ resp.status = 200
        /\ \E i \in DOMAIN reply.response : reply.response[i] = resp.error

\* A chat whose provider call raised.
C7_Witness ==
    /\ resp.op = "chat"
    /\ resp.raised = "provider"
    /\ resp.error = "quota exceeded"

\* C10 as stated: in every operation that touches the store, an error of
\* the store surfaces as an unhandled-exception response.
C10_StoreErrorSurfaces == resp.raised = "store" => resp.status = 500

\* C10 amended: an error of the store surfaces as an unhandled-exception
\* response in create, list, delete, summarize and history; in chat the
\* except clause catches it and the call answers a normal response whose text
\* contains the error text and that has no session identifier.
C10_StoreErrorSurfacesButInChat ==
    resp.raised = "store" =>
        IF resp.op = "chat"
        THEN /\ resp.status = 200
             /\ \E i \in DOMAIN reply.response : reply.response[i] = resp.error
             /\ reply.session_id = <<>>
        ELSE /\ resp.op \in {"create", "list", "delete", "summary", "history"}
             /\ resp.status = 500

\* A chat whose insert raised, with a transaction in the ledger.
C10_Witness ==
    /\ resp.op = "chat"
    /\ resp.raised = "store"
    /\ transactions # <<>>

=============================================================================
